---- MODULE Spec2Model ----
(***************************************************************************)
(* GrayNorm (graynorm.py): ranking of candidate reference-gene             *)
(* combinations by the inter-condition variability of their inverse        *)
(* normalisation factor.                                                   *)
(*                                                                         *)
(* Python values are modelled as tagged records so that a text cell and a  *)
(* float never meet in an untyped comparison:                              *)
(*   [t |-> "str", s |-> "hi"]            a str                            *)
(*   [t |-> "float", v |-> 1, nz |-> b]   the float v; nz marks -0.0       *)
(* Only integer-valued floats are read from the input.  Numbers computed   *)
(* from them are exact rationals <<num, den>>; a standard deviation        *)
(* sqrt(q) is kept as [sqrt |-> q].  Rounding of IEEE doubles, NaN and     *)
(* the infinities are outside the model.                                   *)
(***************************************************************************)
EXTENDS Integers, Sequences, FiniteSets, TLC

VARIABLES
    pc,           \* position of main(): "start", "open", "meta", "header", "rows",
                  \* "loaded", "ranked", "done", or "exit" once the program has ended
                  \* with an error
    exc,          \* name of the exception that left main(), or "none"
    exit_status,  \* status passed to sys.exit / left by the interpreter, -1 while running
    out_file,     \* the file named by -out: "absent", "empty" or "written"
    file,         \* the input file: readable flag, meta information, header row
    data,         \* the Data object (its fields), None before it is constructed
    cur_row,      \* the row handed to the last Data.add call (<<>> before the first)
    stats         \* the values returned by the calls of Data.compute_all so far

vars == <<pc, exc, exit_status, out_file, file, data, cur_row, stats>>

---------------------------------------------------------------------------
(* Bounds of the model *)

\* sample rows read by the runs that go on to rank
MaxRows == 4

\* sample rows read by the runs that only load
MaxLoadRows == 3

\* calls of compute_all on one loaded table
MaxCalls == 2

---------------------------------------------------------------------------
(* Python values *)

None == [t |-> "None"]

Str(s) == [t |-> "str", s |-> s]

Float(v, nz) == [t |-> "float", v |-> v, nz |-> nz]

Range(seq) == {seq[i] : i \in 1..Len(seq)}

\* float(s) for the cell texts of the model; a text outside the table raises
\* ValueError
FloatTable ==
    ("0" :> Float(0, FALSE)) @@ ("-0" :> Float(0, TRUE)) @@
    ("1" :> Float(1, FALSE)) @@ ("1.0" :> Float(1, FALSE)) @@
    ("2" :> Float(2, FALSE)) @@ ("4" :> Float(4, FALSE)) @@
    ("4.0" :> Float(4, FALSE)) @@ ("64" :> Float(64, FALSE))

IsFloatStr(s) == s \in DOMAIN FloatTable

float(s) == FloatTable[s]

\* x == y on Python values: floats compare by value (0.0 == -0.0), strs by
\* text, a float never equals a str
PyEq(x, y) ==
    /\ x.t = y.t
    /\ IF x.t = "float" THEN x.v = y.v
       ELSE IF x.t = "str" THEN x.s = y.s
       ELSE TRUE

\* list == list: same length and pairwise equal elements
ListEq(xs, ys) ==
    /\ Len(xs) = Len(ys)
    /\ \A i \in 1..Len(xs) : PyEq(xs[i], ys[i])

\* repr() of a float or a str
repr(x) ==
    IF x.t = "float"
    THEN IF x.v = 0 THEN (IF x.nz THEN "-0.0" ELSE "0.0")
         ELSE ToString(x.v) \o ".0"
    ELSE "'" \o x.s \o "'"

RECURSIVE JoinRepr(_)
JoinRepr(xs) ==
    IF Len(xs) = 0 THEN ""
    ELSE IF Len(xs) = 1 THEN repr(xs[1])
    ELSE repr(xs[1]) \o ", " \o JoinRepr(Tail(xs))

\* str() of a list
str(xs) == "[" \o JoinRepr(xs) \o "]"

\* the try/except of Data.add and read_file: float where parseable, else text
CondCoerce(s) == IF IsFloatStr(s) THEN float(s) ELSE Str(s)

---------------------------------------------------------------------------
(* Data: construction and the setters read_file calls *)

\* Data.__init__ followed by set_sample_col_name, set_condition_col_names,
\* set_control_vals and set_gene_col_names.  Indices are Python's (0-based).
CondIdx(headers, conditions) ==
    LET F[i \in 0..Len(headers)] ==
            IF i = 0 THEN <<>>
            ELSE IF headers[i] \in Range(conditions)
                 THEN Append(F[i - 1], i - 1)
                 ELSE F[i - 1]
    IN F[Len(headers)]

NewData(headers, sample, conditions, control_values, genes) ==
    [ headers           |-> headers,
      non_data          |-> <<sample>> \o conditions,
      data              |-> <<>>,
      control_idx       |-> <<>>,
      cond_idx          |-> CondIdx(headers, conditions),
      cond_groups       |-> <<>>,
      cond_group_idx    |-> <<>>,
      conditions        |-> conditions,
      control_cond_vals |-> control_values,
      gene_names        |-> genes,
      sample            |-> sample ]

---------------------------------------------------------------------------
(* Data.add *)

\* a coercion that spares the sample-ID column only
NeedsFloat_sampleOnly(self, header) == header # self.sample

\* line 46: the cell is coerced to float unless its header is in _non_data
NeedsFloat(self, header) == header \notin Range(self.non_data)

\* the first loop of add raises ValueError at the first cell float() rejects
AddRaises(self, row) ==
    \E idx \in 1..Len(self.headers) :
        NeedsFloat(self, self.headers[idx]) /\ ~IsFloatStr(row[idx])

\* the row as stored: data columns as floats, the others as read
Coerced(self, row) ==
    [idx \in 1..Len(self.headers) |->
        IF NeedsFloat(self, self.headers[idx]) THEN float(row[idx])
        ELSE Str(row[idx])]

\* lines 48-53: the row's condition values, in _cond_idx order
CondValues(self, row) ==
    [k \in 1..Len(self.cond_idx) |-> CondCoerce(row[self.cond_idx[k] + 1])]

\* line 54: the row is a control row
IsControl(self, cond_values) == ListEq(self.control_cond_vals, cond_values)

\* line 56: the key of the row's condition group
CondLabel(cond_values) == str(cond_values)

\* lines 54-61 for a row the first loop accepted
add(self, row) ==
    LET cond_values == CondValues(self, row)
        n           == Len(self.data)
        cond_label  == CondLabel(cond_values)
        isNew       == cond_label \notin DOMAIN self.cond_groups
        groups      == IF isNew THEN (cond_label :> <<>>) @@ self.cond_groups
                       ELSE self.cond_groups
    IN [self EXCEPT
          !.control_idx    = IF IsControl(self, cond_values) THEN Append(@, n) ELSE @,
          !.cond_group_idx = IF isNew THEN Append(@, cond_values) ELSE @,
          !.cond_groups    = [groups EXCEPT ![cond_label] = Append(@, n)],
          !.data           = Append(@, Coerced(self, row))]

---------------------------------------------------------------------------
(* Exact arithmetic standing for the float arithmetic of the statistics *)

\* Op applied to the value of x, which is computed once (a local variable
\* of the code: assigned once, read many times)
With(x, Op(_)) == CHOOSE r \in {Op(v) : v \in {x}} : TRUE

RECURSIVE GCD(_, _)
GCD(a, b) == IF b = 0 THEN a ELSE GCD(b, a % b)

Abs(x) == IF x < 0 THEN -x ELSE x

\* the rational n/d, d # 0, in lowest terms with a positive denominator
Rat(n, d) ==
    LET g == GCD(Abs(n), Abs(d))
        s == IF d < 0 THEN -1 ELSE 1
    IN <<(s * n) \div g, (s * d) \div g>>

\* sums and products cancel common factors before they multiply, which
\* keeps the intermediate integers small
RAdd(a, b) ==
    With(GCD(a[2], b[2]),
         LAMBDA g : Rat(a[1] * (b[2] \div g) + b[1] * (a[2] \div g),
                        (a[2] \div g) * b[2]))

RSub(a, b) == RAdd(a, <<-b[1], b[2]>>)

RMul(a, b) ==
    With(<<GCD(Abs(a[1]), b[2]), GCD(Abs(b[1]), a[2])>>,
         LAMBDA g : Rat((a[1] \div g[1]) * (b[1] \div g[2]),
                        (a[2] \div g[2]) * (b[2] \div g[1])))

RDiv(a, b) == RMul(a, IF b[1] < 0 THEN <<-b[2], -b[1]>> ELSE <<b[2], b[1]>>)

RAbs(a) == <<Abs(a[1]), a[2]>>

RLess(a, b) ==
    With(GCD(a[2], b[2]),
         LAMBDA g : a[1] * (b[2] \div g) < b[1] * (a[2] \div g))

RECURSIVE RSum(_)
RSum(xs) == IF Len(xs) = 0 THEN <<0, 1>> ELSE RAdd(xs[1], RSum(Tail(xs)))

RECURSIVE Pow(_, _)
Pow(b, e) == IF e = 0 THEN 1 ELSE b * Pow(b, e - 1)

\* p ** (1.0/n) for a p that is an exact n-th power
NthRoot(p, n) == CHOOSE r \in 0..p : Pow(r, n) = p

\* the outcome of a call: a returned value or a raised exception
Return(v) == [raised |-> "none", value |-> v]

Raise(e) == [raised |-> e]

\* the first element of outcomes that is a raised exception, if any
FirstRaised(outcomes) ==
    LET bad == {i \in 1..Len(outcomes) : outcomes[i].raised # "none"}
    IN IF bad = {} THEN Return(<<>>)
       ELSE outcomes[CHOOSE i \in bad : \A b \in bad : i <= b]

---------------------------------------------------------------------------
(* compute_stats *)

\* lines 230-235.  n = 0: s**2/n divides the int 0 by 0; n = 1: the float
\* division by n - 1.0 = 0.0; both raise ZeroDivisionError.  The returned
\* stddev and stderr are the square roots of the rationals under "sqrt".
compute_stats(numbers) ==
    LET n == Len(numbers)
        Stats(s, s2) ==
            LET Triple(var) ==
                    Return([avg    |-> RDiv(s, <<n, 1>>),
                            stddev |-> [sqrt |-> var],
                            stderr |-> [sqrt |-> RDiv(var, <<n, 1>>)]])
            IN With(RDiv(RSub(s2, RDiv(RMul(s, s), <<n, 1>>)), <<n - 1, 1>>), Triple)
        Sums(s) == With(RSum([i \in 1..n |-> RMul(numbers[i], numbers[i])]),
                        LAMBDA s2 : Stats(s, s2))
    IN IF n = 0 \/ n - 1 = 0 THEN Raise("ZeroDivisionError")
       ELSE With(RSum(numbers), Sums)

\* stddev/avg for avg > 0: sqrt(q)/a = sqrt(q/a^2); avg = 0.0 raises
SqrtOver(stddev, avg) == [sqrt |-> RDiv(stddev.sqrt, RMul(avg, avg))]

---------------------------------------------------------------------------
(* The normalisation factors *)

RECURSIVE Product(_)
Product(xs) == IF Len(xs) = 0 THEN 1 ELSE xs[1] * Product(Tail(xs))

\* itertools.compress(row, col_sel) with col_sel = [header in genes ...]
Compress(self, row, genes) ==
    LET F[i \in 0..Len(self.headers)] ==
            IF i = 0 THEN <<>>
            ELSE IF self.headers[i] \in Range(genes)
                 THEN Append(F[i - 1], row[i].v)
                 ELSE F[i - 1]
    IN F[Len(self.headers)]

\* lines 132-140
compute_nf(self, genes) ==
    [r \in 1..Len(self.data) |->
        NthRoot(Product(Compress(self, self.data[r], genes)), Len(genes))]

\* lines 142-143: 1.0/x raises ZeroDivisionError for x = 0.0
compute_inv_nf(self, genes) ==
    LET Inv(nfs) ==
            IF \E r \in 1..Len(nfs) : nfs[r] = 0 THEN Raise("ZeroDivisionError")
            ELSE Return([r \in 1..Len(nfs) |-> Rat(1, nfs[r])])
    IN With(compute_nf(self, genes), Inv)

\* the property control_rows, lines 117-119
control_rows(self) == self.control_idx

\* lines 145-149: with no control row the int 0 is divided by the int 0
compute_inv_nf_vs_control(self, genes) ==
    LET ctl == control_rows(self)
        Scale(inv_nfs, avg_control) ==
            IF avg_control[1] = 0 THEN Raise("ZeroDivisionError")
            ELSE Return([r \in 1..Len(inv_nfs) |-> RDiv(inv_nfs[r], avg_control)])
        VsControl(inv) ==
            IF inv.raised # "none" THEN inv
            ELSE IF Len(ctl) = 0 THEN Raise("ZeroDivisionError")
            ELSE With(RDiv(RSum([k \in 1..Len(ctl) |-> inv.value[ctl[k] + 1]]),
                           <<Len(ctl), 1>>),
                      LAMBDA avg_control : Scale(inv.value, avg_control))
    IN With(compute_inv_nf(self, genes), VsControl)

---------------------------------------------------------------------------
(* Statistics per condition group and overall *)

\* the property condition_values, lines 96-99
condition_values(self) == self.cond_group_idx

\* the property nr_conditions, lines 101-104
nr_conditions(self) == Len(self.cond_group_idx)

\* lines 106-112 for a label that is present (the lookups of the program
\* take their tuples from condition_values, whose labels are all present)
condition_group(self, cond_values) == self.cond_groups[str(cond_values)]

\* lines 155-163 for one condition group
GroupStats(self, inv_nfs_vs_ctrl, cond_values) ==
    LET members == condition_group(self, cond_values)
        Entry(st) ==
            IF st.raised # "none" THEN st
            ELSE IF st.value.avg[1] = 0 THEN Raise("ZeroDivisionError")
            ELSE Return([cond     |-> cond_values,
                         avg      |-> st.value.avg,
                         stddev   |-> st.value.stddev,
                         stderr   |-> st.value.stderr,
                         cv_intra |-> SqrtOver(st.value.stddev, st.value.avg)])
    IN With(compute_stats([k \in 1..Len(members) |->
                              inv_nfs_vs_ctrl[members[k] + 1]]), Entry)

\* lines 151-164: the first exception raised in the loop leaves the method
compute_condition_stats(self, genes) ==
    LET conds == condition_values(self)
        Collect(per) ==
            With(FirstRaised(per),
                 LAMBDA first : IF first.raised # "none" THEN first
                                ELSE Return([c \in 1..Len(per) |-> per[c].value]))
        Loop(inv) ==
            IF inv.raised # "none" THEN inv
            ELSE With([c \in 1..Len(conds) |-> GroupStats(self, inv.value, conds[c])],
                      Collect)
    IN With(compute_inv_nf_vs_control(self, genes), Loop)

\* lines 166-176
compute_overall_stats(self, genes) ==
    LET Overall(avgs, st) ==
            IF st.raised # "none" THEN st
            ELSE IF st.value.avg[1] = 0 THEN Raise("ZeroDivisionError")
            ELSE Return([avg      |-> st.value.avg,
                         stddev   |-> st.value.stddev,
                         cumm     |-> RSum([c \in 1..Len(avgs) |->
                                               RAbs(RSub(<<1, 1>>, avgs[c]))]),
                         cv_inter |-> SqrtOver(st.value.stddev, st.value.avg)])
        Avgs(stats_) ==
            IF stats_.raised # "none" THEN stats_
            ELSE With([c \in 1..Len(stats_.value) |-> stats_.value[c].avg],
                      LAMBDA avgs : With(compute_stats(avgs),
                                         LAMBDA st : Overall(avgs, st)))
    IN With(compute_condition_stats(self, genes), Avgs)

---------------------------------------------------------------------------
(* compute_all *)

\* itertools.combinations(seq, n): the n-element subsequences of seq, in
\* lexicographic order of their positions
RECURSIVE combinations(_, _)
combinations(seq, n) ==
    IF n = 0 THEN << <<>> >>
    ELSE IF Len(seq) < n THEN <<>>
    ELSE With(combinations(Tail(seq), n - 1),
              LAMBDA rest : [i \in 1..Len(rest) |-> <<Head(seq)>> \o rest[i]])
         \o combinations(Tail(seq), n)

\* lines 180-181: the nesting of the two loops, sizes 1 .. len(cand_genes)
RECURSIVE CombinationsUpTo(_, _)
CombinationsUpTo(cand_genes, n) ==
    IF n = 0 THEN <<>>
    ELSE CombinationsUpTo(cand_genes, n - 1) \o combinations(cand_genes, n)

\* the outer loop stopping one size short
gene_combinations_short(cand_genes) == CombinationsUpTo(cand_genes, Len(cand_genes) - 1)

gene_combinations(cand_genes) == CombinationsUpTo(cand_genes, Len(cand_genes))

\* the order of the sort key x['overall']['cv_inter'], a non-negative root
KeyLess(x, y) == RLess(x.overall.cv_inter.sqrt, y.overall.cv_inter.sqrt)

\* an unstable sort: an element goes in front of the elements of equal key
Insert_unstable(sorted, x) ==
    With(Cardinality({i \in 1..Len(sorted) : KeyLess(sorted[i], x)}),
         LAMBDA k : SubSeq(sorted, 1, k) \o <<x>> \o SubSeq(sorted, k + 1, Len(sorted)))

\* list.sort is stable: an element goes behind every element whose key is
\* not greater than its own
Insert(sorted, x) ==
    With(Cardinality({i \in 1..Len(sorted) : ~KeyLess(x, sorted[i])}),
         LAMBDA k : SubSeq(sorted, 1, k) \o <<x>> \o SubSeq(sorted, k + 1, Len(sorted)))

RECURSIVE SortFrom(_, _, _)
SortFrom(sorted, seq, i) ==
    IF i > Len(seq) THEN sorted
    ELSE With(Insert(sorted, seq[i]), LAMBDA next : SortFrom(next, seq, i + 1))

\* line 189
sort(seq) == SortFrom(<<>>, seq, 1)

\* lines 182-188 for one combination
Record(self, genes) ==
    LET Entry(cond_stats, overall_stats) ==
            IF cond_stats.raised # "none" THEN cond_stats
            ELSE IF overall_stats.raised # "none" THEN overall_stats
            ELSE Return([genes   |-> genes,
                         conds   |-> cond_stats.value,
                         overall |-> overall_stats.value])
    IN With(compute_condition_stats(self, genes),
            LAMBDA cond_stats : With(compute_overall_stats(self, genes),
                                     LAMBDA overall_stats :
                                         Entry(cond_stats, overall_stats)))

\* lines 178-190
compute_all(self, cand_genes) ==
    LET Sorted(recs) ==
            With(FirstRaised(recs),
                 LAMBDA first : IF first.raised # "none" THEN first
                                ELSE Return(sort([i \in 1..Len(recs) |-> recs[i].value])))
    IN With(gene_combinations(cand_genes),
            LAMBDA combos : With([i \in 1..Len(combos) |-> Record(self, combos[i])],
                                 Sorted))

---------------------------------------------------------------------------
(* read_file: validation of the column roles *)

List(l) == [t |-> "list", l |-> l]

\* Python's truth value of None, a str or a list
Truthy(x) ==
    IF x.t = "None" THEN FALSE
    ELSE IF x.t = "str" THEN x.s # ""
    ELSE Len(x.l) > 0

\* a comparison that takes the whole header set for unknown
unknown_columns_strict(cols, headers) ==
    LET c_set == IF cols.t = "str" THEN {cols.s} ELSE Range(cols.l)
        h_set == Range(headers)
    IN IF c_set \subseteq h_set /\ c_set # h_set THEN {}
       ELSE c_set

\* lines 318-326
unknown_columns(cols, headers) ==
    LET c_set == IF cols.t = "str" THEN {cols.s} ELSE Range(cols.l)
        h_set == Range(headers)
    IN IF c_set \subseteq h_set /\ c_set # h_set THEN {}
       ELSE c_set \ h_set

\* lines 309-316; a function that ends without return yields None, which
\* its caller tests like 0
check_column(col_names, headers) ==
    IF ~Truthy(col_names) THEN 4
    ELSE IF unknown_columns(col_names, headers) # {} THEN 5
    ELSE 0

\* lines 296-307
check_input(sample_col_name, cond_col_names, gene_col_names, headers) ==
    LET s == check_column(sample_col_name, headers)
        c == check_column(cond_col_names, headers)
        g == check_column(gene_col_names, headers)
    IN IF s # 0 THEN s ELSE IF c # 0 THEN c ELSE g

\* lines 258-275: the names and the control values of a "# controls:" line
\* whose entries all have the form name=value
cond_col_names(f) ==
    IF f.controls.t = "None" THEN None
    ELSE List([i \in 1..Len(f.controls.l) |-> f.controls.l[i][1]])

control_values(f) ==
    IF f.controls.t = "None" THEN None
    ELSE List([i \in 1..Len(f.controls.l) |-> CondCoerce(f.controls.l[i][2])])

\* line 264: an entry without "="
BadControl(f) ==
    /\ f.controls.t # "None"
    /\ \E i \in 1..Len(f.controls.l) : Len(f.controls.l[i]) < 2

\* lines 285-289
Construct(f) ==
    NewData(f.headers, f.sampleid.s, cond_col_names(f).l, control_values(f).l,
            f.refgenes.l)

\* the sample rows a file with these headers can hold: one text per column
Rows(f) ==
    {row \in [1..Len(f.headers) -> UNION {f.cells[h] : h \in Range(f.headers)}] :
        \A i \in 1..Len(f.headers) : row[i] \in f.cells[f.headers[i]]}

---------------------------------------------------------------------------
(* main *)

\* line 355: parse_args applies FileType('wb') to the -out argument, which
\* opens the file for writing
ParseArgs ==
    /\ pc = "start"
    /\ out_file' = "empty"
    /\ pc' = "open"
    /\ UNCHANGED <<exc, exit_status, file, data, cur_row, stats>>

\* lines 244 and 361-367: open() raises IOError, main exits with status 2
OpenInput ==
    /\ pc = "open"
    /\ IF file.readable
       THEN pc' = "meta" /\ UNCHANGED exit_status
       ELSE pc' = "exit" /\ exit_status' = 2
    /\ UNCHANGED <<exc, out_file, file, data, cur_row, stats>>

\* lines 248-277: the meta information in front of the header row
ReadMeta ==
    /\ pc = "meta"
    /\ IF BadControl(file)
       THEN pc' = "exit" /\ exit_status' = 1
       ELSE pc' = "header" /\ UNCHANGED exit_status
    /\ UNCHANGED <<exc, out_file, file, data, cur_row, stats>>

\* lines 279-290: the header row
ReadHeader ==
    /\ pc = "header"
    /\ LET status == check_input(file.sampleid, cond_col_names(file),
                                 file.refgenes, file.headers)
       IN IF status # 0
          THEN pc' = "exit" /\ exit_status' = status /\ UNCHANGED data
          ELSE pc' = "rows" /\ data' = Construct(file) /\ UNCHANGED exit_status
    /\ UNCHANGED <<exc, out_file, file, cur_row, stats>>

\* lines 291-293 with Data.add: one more sample row; a ValueError of float()
\* is caught nowhere and ends the program with a traceback
AddRow(limit) ==
    /\ pc = "rows"
    /\ Len(data.data) < limit
    /\ \E row \in Rows(file) :
         /\ cur_row' = row
         /\ IF AddRaises(data, row)
            THEN /\ pc' = "exit" /\ exc' = "ValueError" /\ exit_status' = 1
                 /\ UNCHANGED data
            ELSE /\ data' = add(data, row)
                 /\ UNCHANGED <<pc, exc, exit_status>>
    /\ UNCHANGED <<out_file, file, stats>>

\* the loop of line 291 ends, read_file returns
EndOfRows ==
    /\ pc = "rows"
    /\ pc' = "loaded"
    /\ UNCHANGED <<exc, exit_status, out_file, file, data, cur_row, stats>>

\* lines 80-82: check_input has made sure _gene_names is not empty
genes(self) == self.gene_names

\* a compute_all that uses up the control rows it reads
ComputeAll_consuming ==
    /\ pc = "loaded"
    /\ \E r \in {compute_all(data, genes(data))} :
          /\ stats' = Append(stats, r)
          /\ IF r.raised # "none"
             THEN pc' = "exit" /\ exc' = r.raised /\ exit_status' = 1
             ELSE pc' = "ranked" /\ UNCHANGED <<exc, exit_status>>
    /\ data' = [data EXCEPT !.control_idx = <<>>]
    /\ UNCHANGED <<out_file, file, cur_row>>

\* lines 368 and 375
ComputeAll ==
    /\ pc = "loaded"
    /\ \E r \in {compute_all(data, genes(data))} :
          /\ stats' = Append(stats, r)
          /\ IF r.raised # "none"
             THEN pc' = "exit" /\ exc' = r.raised /\ exit_status' = 1
             ELSE pc' = "ranked" /\ UNCHANGED <<exc, exit_status>>
    /\ UNCHANGED <<out_file, file, data, cur_row>>

\* a caller invoking compute_all once more on the loaded table
ComputeAllAgain ==
    /\ pc = "ranked"
    /\ Len(stats) < MaxCalls
    /\ stats' = Append(stats, compute_all(data, genes(data)))
    /\ UNCHANGED <<pc, exc, exit_status, out_file, file, data, cur_row>>

\* lines 376-377 and 222-227
WriteResults ==
    /\ pc = "ranked"
    /\ out_file' = "written"
    /\ pc' = "done"
    /\ exit_status' = 0
    /\ UNCHANGED <<exc, file, data, cur_row, stats>>

---------------------------------------------------------------------------
(* Input files *)

File(readable, sampleid, controls, refgenes, headers, cells) ==
    [ readable |-> readable, sampleid |-> sampleid, controls |-> controls,
      refgenes |-> refgenes, headers |-> headers, cells |-> cells ]

\* files for loading: two condition columns in either header order, numeric
\* and text condition cells, a data column with a cell float() rejects
LoadCells ==
    ("id" :> {"s1"}) @@ ("a" :> {"0", "-0", "hi"}) @@ ("b" :> {"1", "1.0"})
    @@ ("g" :> {"2", "x"})

LoadFiles ==
    { File(TRUE, Str("id"), List(<< <<"a", c[1]>>, <<"b", c[2]>> >>),
           List(<<"g">>), h, LoadCells) :
        c \in { <<"0", "1">>, <<"hi", "1.0">> },
        h \in { <<"id", "a", "b", "g">>, <<"id", "b", "a", "g">> } }

\* files for ranking: one condition column with two values, three gene
\* columns whose values are sixth powers, so that every root is exact; one
\* gene column varies from row to row
RankCells ==
    { ("id" :> {"s1"}) @@ ("a" :> {"0", "1"}) @@ ("g1" :> {"1", "64"})
        @@ ("g2" :> {"64"}) @@ ("g3" :> {"64"}),
      ("id" :> {"s1"}) @@ ("a" :> {"0", "1"}) @@ ("g1" :> {"1"})
        @@ ("g2" :> {"1", "64"}) @@ ("g3" :> {"64"}) }

RankFiles ==
    { File(TRUE, Str("id"), List(<< <<"a", "0">> >>), List(g),
           <<"id", "a", "g1", "g2", "g3">>, c) :
        g \in { <<"g1", "g2", "g3">>, <<"g3", "g1">>, <<"g2">> },
        c \in RankCells }

\* files for the validation of the roles: each role missing, empty, unknown
\* or known, over header rows of one to three columns
CheckCells == ("id" :> {"s1"}) @@ ("a" :> {"0", "hi"}) @@ ("g" :> {"2", "x"})

CheckFiles ==
    { File(TRUE, s, c, g, h, CheckCells) :
        s \in { None, Str(""), Str("id"), Str("g"), Str("zz") },
        c \in { None, List(<< <<"a", "0">> >>), List(<< <<"g", "2">> >>),
                List(<< <<"a", "0">>, <<"q", "1">> >>) },
        g \in { None, List(<<"g">>), List(<<"g", "zz">>), List(<<"id", "a", "g">>) },
        h \in { <<"id", "a", "g">>, <<"g">>, <<"id", "g">> } }

\* files for whole runs of main
MainCells == ("id" :> {"s1"}) @@ ("a" :> {"0", "1"}) @@ ("g" :> {"1", "4", "x"})

MainFiles ==
    { File(r, s, c, g, <<"id", "a", "g">>, MainCells) :
        r \in BOOLEAN,
        s \in { None, Str("id") },
        c \in { List(<< <<"a", "0">> >>), List(<< <<"a">> >>), List(<< <<"a", "2">> >>) },
        g \in { List(<<"g">>), List(<<"zz">>) } }

---------------------------------------------------------------------------
(* Specifications *)

\* main from its first line
InitMain ==
    /\ pc = "start" /\ exc = "none" /\ exit_status = -1 /\ out_file = "absent"
    /\ file \in MainFiles
    /\ data = None /\ cur_row = <<>> /\ stats = <<>>

NextMain ==
    \/ ParseArgs
    \/ OpenInput
    \/ ReadMeta
    \/ ReadHeader
    \/ AddRow(MaxRows)
    \/ EndOfRows
    \/ ComputeAll
    \/ WriteResults

SpecMain == InitMain /\ [][NextMain]_vars

\* read_file at the header row
InitCheck ==
    /\ pc = "header" /\ exc = "none" /\ exit_status = -1 /\ out_file = "empty"
    /\ file \in CheckFiles
    /\ data = None /\ cur_row = <<>> /\ stats = <<>>

NextCheck ==
    \/ ReadHeader
    \/ AddRow(MaxLoadRows)

SpecCheck == InitCheck /\ [][NextCheck]_vars

\* read_file after a header row that passed check_input
AfterHeader(files) ==
    /\ pc = "rows" /\ exc = "none" /\ exit_status = -1 /\ out_file = "empty"
    /\ file \in files
    /\ data = Construct(file) /\ cur_row = <<>> /\ stats = <<>>

InitLoad == AfterHeader(LoadFiles)

NextLoad ==
    \/ AddRow(MaxLoadRows)
    \/ EndOfRows

SpecLoad == InitLoad /\ [][NextLoad]_vars

InitRank == AfterHeader(RankFiles)

NextRank ==
    \/ AddRow(MaxRows)
    \/ EndOfRows
    \/ ComputeAll
    \/ ComputeAllAgain

SpecRank == InitRank /\ [][NextRank]_vars

---------------------------------------------------------------------------
(* Properties of loading (SpecLoad) *)

\* the 0-based position of a header
HeaderPos(self, name) == CHOOSE i \in 0..(Len(self.headers) - 1) : self.headers[i + 1] = name

\* the condition-value tuple of stored row r (0-based), coerced as add does
TupleOfRow(self, r) ==
    [k \in 1..Len(self.cond_idx) |-> CondCoerce(self.data[r + 1][self.cond_idx[k] + 1].s)]

RowIndices(self) == 0..(Len(self.data) - 1)

\* every row index is in exactly one group's member list, exactly once
GroupsPartition(self) ==
    \A r \in RowIndices(self) :
        /\ Cardinality({l \in DOMAIN self.cond_groups :
                           r \in Range(self.cond_groups[l])}) = 1
        /\ \A l \in DOMAIN self.cond_groups :
              Cardinality({k \in 1..Len(self.cond_groups[l]) :
                              self.cond_groups[l][k] = r}) <= 1
    /\ \A l \in DOMAIN self.cond_groups :
          Range(self.cond_groups[l]) \subseteq RowIndices(self)

\* the number of distinct tuples among the rows, tuples being the same when
\* their values are equal
DistinctByValue(self) ==
    Cardinality({ {q \in RowIndices(self) : ListEq(TupleOfRow(self, r), TupleOfRow(self, q))} :
                    r \in RowIndices(self) })

\* the number of distinct tuples among the rows, tuples being the same when
\* their texts str(tuple) are the same
DistinctByLabel(self) ==
    Cardinality({str(TupleOfRow(self, r)) : r \in RowIndices(self)})

\* C1: after any sequence of successful add calls the groups partition the row
\* indices, and the number of groups (nr_conditions, the length of the
\* first-seen list) is the number of distinct condition-value tuples, two
\* tuples being the same when their values are equal after numeric coercion
C1_GroupsPartitionByValue ==
    /\ GroupsPartition(data)
    /\ nr_conditions(data) = Cardinality(DOMAIN data.cond_groups)
    /\ nr_conditions(data) = DistinctByValue(data)

\* what the code keeps instead: one group per distinct text of the tuple
GroupsPartitionByLabel ==
    /\ GroupsPartition(data)
    /\ nr_conditions(data) = Cardinality(DOMAIN data.cond_groups)
    /\ nr_conditions(data) = DistinctByLabel(data)

\* the rows whose value in each declared condition column equals the control
\* value designated for that column
RowsMatchingControl(self) ==
    {r \in RowIndices(self) :
        \A j \in 1..Len(self.conditions) :
            PyEq(CondCoerce(self.data[r + 1][HeaderPos(self, self.conditions[j]) + 1].s),
                 self.control_cond_vals[j])}

\* C2: control_rows is exactly the set of rows whose value in each declared
\* condition column equals the control value designated for that column,
\* whatever the order of the condition columns in the header row; so it is
\* empty or the member list of exactly one condition group
C2_ControlRowsMatchDeclaredColumns ==
    /\ Range(control_rows(data)) = RowsMatchingControl(data)
    /\ Len(control_rows(data)) = Cardinality(RowsMatchingControl(data))
    /\ \/ control_rows(data) = <<>>
       \/ Cardinality({l \in DOMAIN data.cond_groups :
                          data.cond_groups[l] = control_rows(data)}) = 1

\* some cell of the row in a column that is neither the sample-ID column nor
\* a condition column is not a number
BadDataCell(self, row) ==
    \E idx \in 1..Len(self.headers) :
        /\ self.headers[idx] # self.sample
        /\ self.headers[idx] \notin Range(self.conditions)
        /\ ~IsFloatStr(row[idx])

\* C10: add fails (ValueError of float) exactly when some cell in a column
\* that is neither the sample-ID column nor a condition column is not a
\* number, and a failing add leaves the table as it was; an accepted row is
\* appended
C10_AddFailsExactlyOnBadDataCell ==
    [][ (pc = "rows" /\ pc' # "loaded") =>
          /\ (pc' = "exit" /\ exc' = "ValueError") <=> BadDataCell(data, cur_row')
          /\ BadDataCell(data, cur_row') => data' = data
          /\ ~BadDataCell(data, cur_row') =>
                /\ pc' = "rows" /\ exc' = "none"
                /\ Len(data'.data) = Len(data.data) + 1 ]_vars

\* an add failed on a table that holds a row with a text condition cell
C10_Witness ==
    /\ pc = "exit" /\ exc = "ValueError"
    /\ \E r \in RowIndices(data) : \E k \in 1..Len(data.cond_idx) :
          TupleOfRow(data, r)[k].t = "str"

---------------------------------------------------------------------------
(* Properties of ranking (SpecRank) *)

\* the calls of compute_all that returned
Returned == {c \in 1..Len(stats) : stats[c].raised = "none"}

CandGenes == genes(data)

\* C3: for k distinct candidate genes on a table where every statistic is
\* defined, compute_all returns exactly 2^k - 1 records, whose 'genes'
\* fields are exactly the non-empty subsets of the candidate list, each
\* subset in exactly one record
C3_OneRecordPerNonEmptySubset ==
    \A c \in Returned :
        /\ Len(stats[c].value) = Pow(2, Len(CandGenes)) - 1
        /\ {Range(stats[c].value[i].genes) : i \in 1..Len(stats[c].value)}
              = (SUBSET Range(CandGenes)) \ {{}}
        /\ \A i, j \in 1..Len(stats[c].value) :
              Range(stats[c].value[i].genes) = Range(stats[c].value[j].genes) => i = j

\* a call on three candidate genes returned its seven records
C3_Witness ==
    \E c \in Returned : Len(CandGenes) = 3 /\ Len(stats[c].value) = 7

\* the positions (in the candidate list) of the genes of a record
Positions(rec) ==
    [k \in 1..Len(rec.genes) |->
        CHOOSE i \in 1..Len(CandGenes) : CandGenes[i] = rec.genes[k]]

\* p comes before q in lexicographic order (p and q of equal length)
LexLess(p, q) ==
    \E k \in 1..Len(p) : p[k] < q[k] /\ \A m \in 1..(k - 1) : p[m] = q[m]

\* the enumeration order: the smaller subset first, subsets of equal size
\* in lexicographic order of their candidate positions
EnumBefore(x, y) ==
    \/ Len(x.genes) < Len(y.genes)
    \/ Len(x.genes) = Len(y.genes) /\ LexLess(Positions(x), Positions(y))

\* equal inter-group CV: equal roots have equal radicands
SameKey(x, y) == x.overall.cv_inter.sqrt = y.overall.cv_inter.sqrt

\* C4: the returned sequence is non-decreasing in overall inter-group CV, and
\* records of equal inter-group CV are in enumeration order
C4_SortedStably ==
    \A c \in Returned :
        \A i, j \in 1..Len(stats[c].value) :
            i < j =>
                /\ ~RLess(stats[c].value[j].overall.cv_inter.sqrt,
                          stats[c].value[i].overall.cv_inter.sqrt)
                /\ SameKey(stats[c].value[i], stats[c].value[j]) =>
                      EnumBefore(stats[c].value[i], stats[c].value[j])

\* a returned ranking that is not in enumeration order and holds two records
\* of equal inter-group CV and different sizes
C4_Witness ==
    \E c \in Returned :
        /\ \E i, j \in 1..Len(stats[c].value) :
              i < j /\ EnumBefore(stats[c].value[j], stats[c].value[i])
        /\ \E i, j \in 1..Len(stats[c].value) :
              /\ SameKey(stats[c].value[i], stats[c].value[j])
              /\ Len(stats[c].value[i].genes) < Len(stats[c].value[j].genes)

\* C5: with no control row compute_inv_nf_vs_control, and so compute_all,
\* fails with the explicit EmptyControlGroup error: the division by the
\* zero count is caught and no record is returned
C5_EmptyControlGroupIsExplicit ==
    \A c \in 1..Len(stats) :
        (Len(data.data) >= 1 /\ control_rows(data) = <<>>) =>
            stats[c].raised = "EmptyControlGroup"

\* some condition group holds one sample, or there is one condition group
Degenerate(self) ==
    \/ nr_conditions(self) = 1
    \/ \E l \in DOMAIN self.cond_groups : Len(self.cond_groups[l]) = 1

\* C6: when compute_stats is given fewer than 2 values (a condition group
\* of one sample, or a single condition group) the computation surfaces
\* the explicit DegenerateSample error, not a divide-by-zero fault
C6_DegenerateSampleIsExplicit ==
    \A c \in 1..Len(stats) :
        (control_rows(data) # <<>> /\ Degenerate(data)) =>
            stats[c].raised = "DegenerateSample"

---------------------------------------------------------------------------
(* Properties of the header validation (SpecCheck) and of main (SpecMain) *)

\* a role is missing or empty, or names a column that is not a header
RoleBad(names, headers) ==
    \/ names.t = "None"
    \/ names.t = "str" /\ (names.s = "" \/ names.s \notin Range(headers))
    \/ names.t = "list" /\ (Len(names.l) = 0 \/ \E i \in 1..Len(names.l) :
                                                  names.l[i] \notin Range(headers))

RolesBad(f) ==
    \/ RoleBad(f.sampleid, f.headers)
    \/ RoleBad(cond_col_names(f), f.headers)
    \/ RoleBad(f.refgenes, f.headers)

\* C8: at the header row, loading fails with a non-zero exit status, before
\* any row is ingested and before any computation, if and only if the
\* sample-ID name, the condition names or the gene names are missing, empty
\* or not all among the headers; otherwise validation passes and the table
\* is constructed
C8_HeaderFailsExactlyOnBadRoles ==
    [][ pc = "header" =>
          /\ (pc' = "exit" /\ exit_status' > 0) <=> RolesBad(file)
          /\ RolesBad(file) => data' = None /\ cur_row' = <<>> /\ stats' = <<>>
          /\ ~RolesBad(file) => pc' = "rows" /\ data' = Construct(file) ]_vars

\* validation passed for gene names that are exactly the whole header set,
\* and a row was ingested afterwards
C8_Witness ==
    /\ pc = "rows"
    /\ Range(file.refgenes.l) = Range(file.headers)
    /\ Len(data.data) = 1

\* C7: the result file is not created, truncated or written before reading,
\* validation and ranking have all succeeded: a run that ends in a fatal
\* error has produced no result file, not even an empty one
C7_NoResultFileOnFatalError ==
    pc = "exit" => out_file = "absent"

====
